---- MODULE Spec2Model ----
(***************************************************************************)
(* buster: a UMD-wrapped script loader that appends ?cacheBuster=<ms> to   *)
(* a resource locator, injects a <script> element and bridges its load /   *)
(* error event to a promise.  The model follows buster.js statement by     *)
(* statement.  The host is a browser-like document host (window, document  *)
(* and console exist), which is what load() needs to inject anything.      *)
(*                                                                         *)
(* JavaScript strings are sequences of symbols.  A symbol is one of the    *)
(* separator characters "/", "." and "?", a space, or a run of other       *)
(* characters written as one word ("a", "js", "constructor"): split('/'),  *)
(* split('.') and includes('.') only look at the separators, the URL       *)
(* parser at the separators and the spaces.                                *)
(***************************************************************************)
EXTENDS Integers, Sequences, FiniteSets, TLC

\* Number of load/bust invocations and clock readings explored.
MaxCalls == 2
MaxClock == 1

\* Length, in symbols, of the locators examined one by one.
MaxLen == 4

-----------------------------------------------------------------------------
(* JavaScript values used as arguments                                     *)

Str(chars) == [type |-> "string", chars |-> chars]
Undefined == [type |-> "undefined", chars |-> <<>>]

\* Resource locators handed to load/bust.
LocA == Str(<<"/", "m", "/", "a", ".", "js">>)
LocA2 == Str(<<"a", ".", "v2", ".", "js">>)
LocB == Str(<<"/", "x", "/", "b">>)
LocProto == Str(<<"/", "constructor", ".", "js">>)
LocBadUrl == Str(<<"/", "/">>)
Locators == {LocA, LocA2, LocB, LocProto, LocBadUrl, Undefined}

\* The options argument: absent (undefined), null, or an object whose
\* recognised fields are async and onError.  onError is a callback that
\* returns normally or one that raises an exception.
OptObject(async, onError) == [kind |-> "object", async |-> async, onError |-> onError]
OptAbsent == [kind |-> "undefined", async |-> "unset", onError |-> "none"]
OptNull == [kind |-> "null", async |-> "unset", onError |-> "none"]
OptHook == OptObject("false", "returns")
OptHookThrows == OptObject("unset", "throws")
OptionValues == {OptAbsent, OptNull, OptHook, OptHookThrows}

\* The thisArg argument: absent, an object, or the falsy number 0.
Contexts == {"undefined", "ctx", "0"}
Truthy(thisArg) == thisArg = "ctx"

\* The argument lists the invocations are drawn from: every locator with the
\* other arguments absent, and every options value and every thisArg with a
\* locator that parses and with one that does not.
Arguments ==
    (Locators \X {OptAbsent} \X {"undefined"})
        \cup ({LocA, Undefined} \X OptionValues \X {"undefined"})
        \cup ({LocA, Undefined} \X {OptHook} \X Contexts)

\* Every combination of the argument values.
AllArguments == Locators \X OptionValues \X Contexts

\* The invocations made while the exposure of the loader is examined.
PlainArguments == {<<LocA, OptAbsent, "undefined">>}

\* Every string of up to MaxLen symbols over the separators of schema and of
\* the URL parser, the space and one word.
Symbols == {"/", ".", "?", " ", "a"}
BoundedLocators == UNION {[1..n -> Symbols] : n \in 0..MaxLen}

-----------------------------------------------------------------------------
(* String helpers: String.prototype.split / includes, Array.prototype.pop  *)

RECURSIVE split(_, _)
split(s, sep) ==
    IF s = <<>> THEN << <<>> >>
    ELSE LET rest == split(Tail(s), sep)
         IN  IF Head(s) = sep
             THEN << <<>> >> \o rest
             ELSE << <<Head(s)>> \o rest[1] >> \o Tail(rest)

includes(s, ch) == \E i \in DOMAIN s : s[i] = ch

\* pop as it would be were it to take the first element (shift).
popTakesFirst(parts) == parts[1]

\* line 20: .pop(), the last element of the array
pop(parts) == parts[Len(parts)]

\* The version as it would be were it the last part, the file extension.
SecondPartIsLast(parts) == parts[Len(parts)]

\* parts[1] of a JavaScript array: undefined past the end (never the case
\* after includes('.') succeeded, split then yields two parts or more).
SecondPart(parts) == IF Len(parts) >= 2 THEN parts[2] ELSE <<>>

\* schema as it would be were the name the whole final segment, version and
\* extension included.
schemaKeepsSegment(url) ==
    LET segment == pop(split(url, "/"))
        parts == split(segment, ".")
    IN  IF includes(segment, ".")
        THEN [moduleName |-> segment, version |-> SecondPart(parts)]
        ELSE [moduleName |-> segment, version |-> <<>>]

\* schema(url): the last '/'-segment, cut at its dots.
schema(url) ==
    LET segment == pop(split(url, "/"))
        parts == split(segment, ".")
    IN  IF includes(segment, ".")
        THEN [moduleName |-> parts[1], version |-> SecondPart(parts)]
        ELSE [moduleName |-> segment, version |-> <<>>]

\* schema(module) raises a TypeError when module has no split method.
SchemaThrows(module) == module.type # "string"

-----------------------------------------------------------------------------
(* new URL(module, window.location.origin)                                 *)

Origin == <<"http:", "/", "/", "host">>

\* The parser first removes leading and trailing spaces from its input.
RECURSIVE TrimLeft(_)
TrimLeft(s) ==
    IF s # <<>> /\ Head(s) = " " THEN TrimLeft(Tail(s)) ELSE s

RECURSIVE TrimRight(_)
TrimRight(s) ==
    IF s # <<>> /\ s[Len(s)] = " " THEN TrimRight(SubSeq(s, 1, Len(s) - 1)) ELSE s

Trim(s) == TrimRight(TrimLeft(s))

\* A space left inside the path or the query is percent-encoded.
PercentEncode(s) == [i \in DOMAIN s |-> IF s[i] = " " THEN "%20" ELSE s[i]]

RECURSIVE DropSlashes(_)
DropSlashes(s) ==
    IF s # <<>> /\ Head(s) = "/" THEN DropSlashes(Tail(s)) ELSE s

RECURSIVE TakeHost(_)
TakeHost(s) ==
    IF s = <<>> \/ Head(s) \in {"/", "?"} THEN <<>>
    ELSE <<Head(s)>> \o TakeHost(Tail(s))

\* The path ends where the query starts, at the first "?".
RECURSIVE BeforeQuery(_)
BeforeQuery(s) ==
    IF s = <<>> \/ Head(s) = "?" THEN <<>>
    ELSE <<Head(s)>> \o BeforeQuery(Tail(s))

FromQuery(s) == SubSeq(s, Len(BeforeQuery(s)) + 1, Len(s))

\* Path segments "." and ".." are resolved: "." is dropped, ".." removes the
\* segment before it; either leaves an empty segment when it ends the path.
RECURSIVE Normalise(_, _)
Normalise(segments, out) ==
    IF segments = <<>> THEN out
    ELSE LET segment == Head(segments)
             closing == IF Len(segments) = 1 THEN << <<>> >> ELSE <<>>
         IN  IF segment = <<".", ".">>
             THEN Normalise(Tail(segments),
                            (IF out = <<>> THEN out ELSE SubSeq(out, 1, Len(out) - 1))
                                \o closing)
             ELSE IF segment = <<".">>
             THEN Normalise(Tail(segments), out \o closing)
             ELSE Normalise(Tail(segments), Append(out, segment))

RECURSIVE Join(_)
Join(segments) ==
    IF segments = <<>> THEN <<>>
    ELSE <<"/">> \o Head(segments) \o Join(Tail(segments))

StartsWithTwoSlashes(s) == Len(s) >= 2 /\ s[1] = "/" /\ s[2] = "/"

\* A scheme-relative reference ("//...") names its own host; the URL parser
\* skips the extra slashes and fails when no host follows or when the host
\* holds a space.
UrlThrows(s) ==
    LET t == Trim(s)
        host == TakeHost(DropSlashes(t))
    IN  StartsWithTwoSlashes(t) /\ (host = <<>> \/ includes(host, " "))

\* url.href of new URL(s, window.location.origin): scheme and host (the
\* origin's unless the reference names its own), the normalised path, the
\* query.
Href(s) ==
    LET t == Trim(s)
        own == StartsWithTwoSlashes(t)
        host == IF own THEN TakeHost(DropSlashes(t)) ELSE <<>>
        rest == IF own THEN SubSeq(DropSlashes(t), Len(host) + 1, Len(DropSlashes(t)))
                ELSE t
        path == BeforeQuery(rest)
        relative == IF path # <<>> /\ Head(path) = "/" THEN Tail(path) ELSE path
    IN  (IF own THEN <<"http:", "/", "/">> \o host ELSE Origin)
            \o Join(Normalise(split(PercentEncode(relative), "/"), <<>>))
            \o PercentEncode(FromQuery(rest))

-----------------------------------------------------------------------------
(* Program state                                                           *)

VARIABLES
    loadedModules,    \* own keys of the loadedModules object (each set to true)
    calls,            \* one record per load/bust invocation, in call order
    head,             \* children appended to document.head, by invocation
    now,              \* the reading Date.now() returns
    entry,            \* entry point of the latest invocation: load or bust
    windowBuster,     \* value bound to window.buster
    noConflictCall,   \* latest $noConflict() call: the binding it found, its result
    umd               \* the host the UMD wrapper ran in and what it did there

vars == <<loadedModules, calls, head, now, entry, windowBuster, noConflictCall, umd>>

\* loadedModules is a plain object literal: a key lookup that finds no own
\* property continues on Object.prototype, whose members are all truthy.
ObjectPrototypeKeys == {<<"constructor">>, <<"toString">>, <<"__proto__">>}

\* The lookup as it would be were a name with a load in flight taken as loaded.
IsLoadedOrInFlight(registry, moduleName) ==
    \/ moduleName \in registry
    \/ moduleName \in ObjectPrototypeKeys
    \/ \E i \in DOMAIN calls :
          /\ calls[i].moduleName = moduleName
          /\ calls[i].element.state = "inserted"
          /\ calls[i].element.fired = "none"

\* line 53: if (loadedModules[moduleName])
IsLoaded(registry, moduleName) ==
    moduleName \in registry \/ moduleName \in ObjectPrototypeKeys

\* The marking as it would be were the registry replaced by the new entry.
MarkLoadedReplaces(registry, moduleName) == {moduleName}

\* line 74: loadedModules[moduleName] = true
MarkLoaded(registry, moduleName) ==
    IF moduleName = <<"__proto__">> THEN registry ELSE registry \cup {moduleName}

-----------------------------------------------------------------------------
(* Promise and callback plumbing                                           *)

Pending == [state |-> "pending", value |-> "none"]

\* Only the first resolve/reject of a promise has an effect.
Settle(promise, state, value) ==
    IF promise.state = "pending" THEN [state |-> state, value |-> value] ELSE promise

Logged(c, fn, this, arg) ==
    [c EXCEPT !.log = Append(@, [fn |-> fn, this |-> this, arg |-> arg])]

\* if (thisArg) { f.call(thisArg, ...) } else { f(...) }: the call context of
\* a plain call f(...) is undefined, that of options.onError(...) is options.
BoundThis(thisArg, plain) == IF Truthy(thisArg) THEN thisArg ELSE plain

\* The branch as it would be were the call of resolve left out.
CallResolveOmitted(c) ==
    Logged(c, "resolve", BoundThis(c.thisArg, "undefined"), "undefined")

\* lines 55-59 and 75-79
CallResolve(c) ==
    [Logged(c, "resolve", BoundThis(c.thisArg, "undefined"), "undefined")
        EXCEPT !.promise = Settle(@, "resolved", "undefined")]

\* lines 91-95 and 109-113
CallReject(c, error) ==
    [Logged(c, "reject", BoundThis(c.thisArg, "undefined"), error)
        EXCEPT !.promise = Settle(@, "rejected", error)]

\* lines 83-95 and 101-113, the same statements in element.onerror and in the
\* catch block: report, run the hook when there is one, then reject.  An
\* exception raised on the way (a new TypeError from reading onError of null,
\* or the exception of the hook) ends the statements there; it is returned as
\* thrown.
ReportFailure(c, error) ==
    LET reported == Logged(c, "console.error", "console", error)
    IN  IF c.options.kind = "null"
        THEN [call |-> reported, thrown |-> "NullOnErrorTypeError"]
        ELSE IF c.options.onError = "none"
        THEN [call |-> CallReject(reported, error), thrown |-> "none"]
        ELSE LET hooked == Logged(reported, "onError",
                                  BoundThis(c.thisArg, "options"), error)
             IN  IF c.options.onError = "throws"
                 THEN [call |-> hooked, thrown |-> "HookException"]
                 ELSE [call |-> CallReject(hooked, error), thrown |-> "none"]

\* Catch as it would be were an exception leaving the catch block lost
\* instead of rejecting the promise.
CatchLosesException(c, error) == ReportFailure([c EXCEPT !.path = "caught"], error).call

\* lines 100-114: the catch block runs inside the promise executor, so an
\* exception leaving it makes the Promise constructor reject the promise.
Catch(c, error) ==
    LET r == ReportFailure([c EXCEPT !.path = "caught"], error)
    IN  IF r.thrown = "none" THEN r.call
        ELSE [r.call EXCEPT !.promise = Settle(@, "rejected", r.thrown)]

\* The handler as it would be were the promise resolved before the name is
\* marked in the registry.
onloadResolvesFirst(c) ==
    Logged(CallResolve([c EXCEPT !.element.fired = "load"]),
           "loadedModules[moduleName]=", "loadedModules", "true")

\* lines 73-80: element.onload marks the name (line 74, the write itself is
\* MarkLoaded in ElementLoad), then calls resolve (lines 75-79).
onload(c) ==
    CallResolve(Logged([c EXCEPT !.element.fired = "load"],
                       "loadedModules[moduleName]=", "loadedModules", "true"))

\* lines 82-96: element.onerror; an exception leaving the handler is reported
\* by the host as uncaught and nothing else runs.
onerror(c) ==
    LET r == ReportFailure([c EXCEPT !.element.fired = "error"], "ErrorEvent")
    IN  IF r.thrown = "none" THEN r.call
        ELSE Logged(r.call, "uncaught", "undefined", r.thrown)

-----------------------------------------------------------------------------
(* load and bust                                                           *)

NoElement == [state |-> "none", src |-> <<>>, async |-> FALSE, fired |-> "none"]

\* line 46: options = {} applies when the argument is undefined
DefaultOptions(optionsArg) ==
    IF optionsArg.kind = "undefined" THEN OptObject("unset", "none") ELSE optionsArg

\* The token as it would be were it read once, when the loader was created.
CacheBusterReadOnce(clock) == 0

\* line 63: const cacheBuster = Date.now()
CacheBuster(clock) == clock

\* line 64: module = `${module}?cacheBuster=${cacheBuster}`
Busted(chars, cacheBuster) == chars \o <<"?", "cacheBuster=", ToString(cacheBuster)>>

\* Inject as it would be were the element appended to the document as soon
\* as it is created, ahead of the statements that can raise.
InjectAppendsFirst(c, href) ==
    LET appended == [c EXCEPT !.element = [state |-> "inserted", src |-> href,
                                           async |-> c.options.async # "false",
                                           fired |-> "none"]]
    IN  IF c.options.kind = "null"
        THEN Catch(appended, "NullAsyncTypeError")
        ELSE [appended EXCEPT !.path = "inserted"]

\* lines 67-98: create the script element, configure it, attach the handlers
\* (lines 73 and 82), set its source (line 97) and append it to document.head
\* (line 98); the log keeps the statements in the order they run.  options.async raises a
\* TypeError when options is null.
Inject(c, href) ==
    IF c.options.kind = "null"
    THEN Catch([c EXCEPT !.element.state = "created"], "NullAsyncTypeError")
    ELSE LET attached == Logged(Logged(c, "element.onload=", "element", "handler"),
                                "element.onerror=", "element", "handler")
             sourced == Logged(attached, "element.src=", "element", "url.href")
             appended == Logged(sourced, "appendChild", "document.head", "element")
         IN  [appended EXCEPT !.path = "inserted",
                              !.element = [state |-> "inserted", src |-> href,
                                           async |-> c.options.async # "false",
                                           fired |-> "none"]]

\* load as it would be were a request for a name already marked loaded
\* handled as a failure.
loadDuplicateFails(module, optionsArg, thisArg) ==
    LET c0 == [received |-> <<>>, module |-> module,
               options |-> DefaultOptions(optionsArg), thisArg |-> thisArg,
               path |-> "idle", moduleName |-> <<>>, version |-> <<>>,
               cacheBuster |-> -1,
               element |-> NoElement, promise |-> Pending, log |-> <<>>]
    IN  IF SchemaThrows(module) THEN Catch(c0, "SplitTypeError")
        ELSE LET c1 == [c0 EXCEPT !.moduleName = schema(module.chars).moduleName,
                                      !.version = schema(module.chars).version]
             IN  IF IsLoaded(loadedModules, c1.moduleName)
                 THEN [Catch(Logged(c1, "console.warn", "console", "undefined"),
                             "AlreadyLoaded") EXCEPT !.path = "deduplicated"]
                 ELSE LET c2 == [c1 EXCEPT !.cacheBuster = CacheBuster(now)]
                          busted == Busted(module.chars, c2.cacheBuster)
                      IN  IF UrlThrows(busted) THEN Catch(c2, "InvalidURL")
                          ELSE Inject(c2, Href(busted))

\* lines 46-116: load(module, options = {}, thisArg); the value is the
\* invocation as it stands when load returns its promise.
load(module, optionsArg, thisArg) ==
    LET c0 == [received |-> <<>>, module |-> module,
               options |-> DefaultOptions(optionsArg), thisArg |-> thisArg,
               path |-> "idle", moduleName |-> <<>>, version |-> <<>>,
               cacheBuster |-> -1,
               element |-> NoElement, promise |-> Pending, log |-> <<>>]
    IN  IF SchemaThrows(module) THEN Catch(c0, "SplitTypeError")
        ELSE LET c1 == [c0 EXCEPT !.moduleName = schema(module.chars).moduleName,
                                      !.version = schema(module.chars).version]
             IN  IF IsLoaded(loadedModules, c1.moduleName)
                 THEN CallResolve(Logged([c1 EXCEPT !.path = "deduplicated"],
                                         "console.warn", "console", "undefined"))
                 ELSE LET c2 == [c1 EXCEPT !.cacheBuster = CacheBuster(now)]
                          busted == Busted(module.chars, c2.cacheBuster)
                      IN  IF UrlThrows(busted) THEN Catch(c2, "InvalidURL")
                          ELSE Inject(c2, Href(busted))

\* bust as it would be were thisArg not handed on.
bustDropsThisArg(module, options, thisArg) == load(module, options, "undefined")

\* lines 124-126: buster.bust = function (module, options, thisArg)
bust(module, options, thisArg) == load(module, options, thisArg)

\* An entry point is called with the arguments received and returns the
\* promise of invocation c; an inserted element is a new child of the head.
Invoke(c, via, received) ==
    /\ umd.instance
    /\ Len(calls) < MaxCalls
    /\ calls' = Append(calls, [c EXCEPT !.received = received])
    /\ head' = IF c.element.state = "inserted" THEN Append(head, Len(calls) + 1) ELSE head
    /\ entry' = via
    /\ UNCHANGED <<loadedModules, now, windowBuster, noConflictCall, umd>>

Load(module, optionsArg, thisArg) ==
    Invoke(load(module, optionsArg, thisArg), "load", <<module, optionsArg, thisArg>>)

Bust(module, optionsArg, thisArg) ==
    Invoke(bust(module, optionsArg, thisArg), "bust", <<module, optionsArg, thisArg>>)

\* An inserted script element fires exactly one of load and error.
Loading(i) == calls[i].element.state = "inserted" /\ calls[i].element.fired = "none"

\* The load event as it would be were every pending invocation of the same
\* module name resolved along with the one whose element fired.
ElementLoadResolvesName(i) ==
    /\ Loading(i)
    /\ loadedModules' = MarkLoaded(loadedModules, calls[i].moduleName)
    /\ calls' = [k \in DOMAIN calls |->
                    IF k = i THEN onload(calls[k])
                    ELSE IF calls[k].moduleName = calls[i].moduleName /\ Loading(k)
                    THEN CallResolve(calls[k])
                    ELSE calls[k]]
    /\ UNCHANGED <<head, now, entry, windowBuster, noConflictCall, umd>>

\* The load event as it would be were every pending invocation, of whatever
\* name, resolved along with the one whose element fired.
ElementLoadResolvesAll(i) ==
    /\ Loading(i)
    /\ loadedModules' = MarkLoaded(loadedModules, calls[i].moduleName)
    /\ calls' = [k \in DOMAIN calls |->
                    IF k = i THEN onload(calls[k])
                    ELSE IF Loading(k) THEN CallResolve(calls[k])
                    ELSE calls[k]]
    /\ UNCHANGED <<head, now, entry, windowBuster, noConflictCall, umd>>

\* The host delivers the load event of the element of invocation i.
ElementLoad(i) ==
    /\ Loading(i)
    /\ loadedModules' = MarkLoaded(loadedModules, calls[i].moduleName)
    /\ calls' = [calls EXCEPT ![i] = onload(@)]
    /\ UNCHANGED <<head, now, entry, windowBuster, noConflictCall, umd>>

\* The error event as it would be were a failure to take the name out of
\* the registry.
ElementErrorUnmarksName(i) ==
    /\ Loading(i)
    /\ loadedModules' = loadedModules \ {calls[i].moduleName}
    /\ calls' = [calls EXCEPT ![i] = onerror(@)]
    /\ UNCHANGED <<head, now, entry, windowBuster, noConflictCall, umd>>

\* The error event as it would be were the name marked in the registry
\* whatever the outcome of the element.
ElementErrorMarksName(i) ==
    /\ Loading(i)
    /\ loadedModules' = MarkLoaded(loadedModules, calls[i].moduleName)
    /\ calls' = [calls EXCEPT ![i] = onerror(@)]
    /\ UNCHANGED <<head, now, entry, windowBuster, noConflictCall, umd>>

\* The host delivers the error event of the element of invocation i.
ElementError(i) ==
    /\ Loading(i)
    /\ calls' = [calls EXCEPT ![i] = onerror(@)]
    /\ UNCHANGED <<loadedModules, head, now, entry, windowBuster, noConflictCall, umd>>

\* The host clock advances.  Only an invocation reads it, so it is followed as
\* long as another invocation can be made.
Tick ==
    /\ now < MaxClock
    /\ Len(calls) < MaxCalls
    /\ now' = now + 1
    /\ UNCHANGED <<loadedModules, calls, head, entry, windowBuster, noConflictCall, umd>>

-----------------------------------------------------------------------------------------------------------------------------------------------------
(* $noConflict and the global binding                                      *)

\* noConflict as it would be without the identity test.
noConflictUnguarded(slot) == "undefined"

\* lines 41-43: if (window.buster === buster) window.buster = undefined
noConflict(slot) == IF slot = "buster" THEN "undefined" ELSE slot

\* lines 40-45: $noConflict()
NoConflict ==
    /\ umd.instance
    /\ windowBuster' = noConflict(windowBuster)
    /\ noConflictCall' = [found |-> windowBuster, returned |-> "buster"]
    /\ UNCHANGED <<loadedModules, calls, head, now, entry, umd>>

\* Code outside the loader assigns window.buster: a value of its own, nothing,
\* or the loader instance when it holds one.
ThirdPartyAssign(value) ==
    /\ value = "buster" => umd.instance
    /\ windowBuster' = value
    /\ UNCHANGED <<loadedModules, calls, head, now, entry, noConflictCall, umd>>

-----------------------------------------------------------------------------
(* The UMD wrapper, lines 1-15                                             *)

\* What the wrapper probes: typeof module === 'object' && typeof
\* module.exports === 'object'; typeof define === 'function' && define.amd;
\* the value bound to global.buster before the script runs: nothing, an
\* object of some other code, or the falsy number 0.
Hosts == [moduleExports : BOOLEAN, defineAmd : BOOLEAN, slot : {"undefined", "other", "0"}]

\* lines 7 and 10: if (global.buster), if (!global.buster)
SlotTruthy(slot) == slot \notin {"undefined", "0"}

BrowserHost == [moduleExports |-> FALSE, defineAmd |-> FALSE, slot |-> "undefined"]

\* The wrapper as it would be were the definition-based convention probed
\* ahead of the module-export convention.
UMDWrapperDefineFirst(host) ==
    IF host.defineAmd
    THEN [host |-> host, exports |-> "none", defined |-> TRUE, slot |-> host.slot,
          warned |-> FALSE, instance |-> TRUE]
    ELSE IF host.moduleExports
    THEN [host |-> host, exports |-> "buster", defined |-> FALSE, slot |-> host.slot,
          warned |-> FALSE, instance |-> TRUE]
    ELSE IF SlotTruthy(host.slot)
    THEN [host |-> host, exports |-> "none", defined |-> FALSE, slot |-> host.slot,
          warned |-> TRUE, instance |-> FALSE]
    ELSE [host |-> host, exports |-> "none", defined |-> FALSE, slot |-> "buster",
          warned |-> FALSE, instance |-> TRUE]

\* lines 2-14: the state the wrapper leaves behind in a host.
UMDWrapper(host) ==
    IF host.moduleExports
    THEN [host |-> host, exports |-> "buster", defined |-> FALSE, slot |-> host.slot,
          warned |-> FALSE, instance |-> TRUE]
    ELSE IF host.defineAmd
    THEN [host |-> host, exports |-> "none", defined |-> TRUE, slot |-> host.slot,
          warned |-> FALSE, instance |-> TRUE]
    ELSE IF SlotTruthy(host.slot)
    THEN [host |-> host, exports |-> "none", defined |-> FALSE, slot |-> host.slot,
          warned |-> TRUE, instance |-> FALSE]
    ELSE [host |-> host, exports |-> "none", defined |-> FALSE, slot |-> "buster",
          warned |-> FALSE, instance |-> TRUE]

-----------------------------------------------------------------------------
(* Specifications                                                          *)

InitIn(hosts) ==
    /\ loadedModules = {}
    /\ calls = <<>>
    /\ head = <<>>
    /\ now = 0
    /\ entry = "none"
    /\ noConflictCall = [found |-> "none", returned |-> "none"]
    /\ \E host \in hosts :
          /\ umd = UMDWrapper(host)
          /\ windowBuster = UMDWrapper(host).slot

\* One loader, attached to window.buster by a script tag in a browser page.
Init == InitIn({BrowserHost})

Next ==
    \/ \E a \in Arguments : Load(a[1], a[2], a[3])
    \/ \E a \in Arguments : Bust(a[1], a[2], a[3])
    \/ \E i \in DOMAIN calls : ElementLoad(i)
    \/ \E i \in DOMAIN calls : ElementError(i)
    \/ Tick
    \/ NoConflict

Spec == Init /\ [][Next]_vars

\* The loader in every host the wrapper distinguishes, with code outside the
\* loader assigning the global binding.
InitUMD == InitIn(Hosts)

NextUMD ==
    \/ \E a \in PlainArguments : Load(a[1], a[2], a[3])
    \/ \E a \in PlainArguments : Bust(a[1], a[2], a[3])
    \/ \E i \in DOMAIN calls : ElementLoad(i)
    \/ \E i \in DOMAIN calls : ElementError(i)
    \/ Tick
    \/ NoConflict
    \/ \E value \in {"undefined", "other", "buster"} : ThirdPartyAssign(value)

SpecUMD == InitUMD /\ [][NextUMD]_vars

\* The loader in a browser page handed one locator, any string of the
\* bounded set, with the other arguments absent.
LoadLocator(chars) ==
    /\ calls = <<>>
    /\ Load(Str(chars), OptAbsent, "undefined")

NextLocators ==
    \/ \E chars \in BoundedLocators : LoadLocator(chars)
    \/ \E i \in DOMAIN calls : ElementLoad(i)
    \/ \E i \in DOMAIN calls : ElementError(i)
    \/ Tick

SpecLocators == Init /\ [][NextLocators]_vars

-----------------------------------------------------------------------------
(* Properties                                                              *)

Invocations == DOMAIN calls

Inserted(c) == c.element.state = "inserted"

Entries(c, fn) == {k \in DOMAIN c.log : c.log[k].fn = fn}

HookSupplied(c) == c.options.kind = "object" /\ c.options.onError # "none"

\* The step is an invocation of load or bust.
CallStep == Len(calls') = Len(calls) + 1

\* C1: once the registry marks a name as loaded, a later load or bust whose
\* locator parses to that name inserts no element and is resolved when it
\* returns; and of two load(L) calls, the first one the first call for its
\* name and resolved before the second is made, exactly one inserts an
\* element.
C1_SequentialLoadsInjectOnce ==
    [][CallStep =>
        LET j == Len(calls')
            c == calls'[j]
        IN  /\ (c.module.type = "string"
                    /\ schema(c.module.chars).moduleName \in loadedModules)
                  => (~Inserted(c) /\ head' = head /\ c.promise.state = "resolved")
            /\ \A i \in Invocations :
                  (/\ calls[i].module = c.module
                   /\ calls[i].promise.state = "resolved"
                   /\ \A k \in 1..(i - 1) : calls[k].moduleName # calls[i].moduleName)
                  => Cardinality({k \in {i, j} : Inserted(calls'[k])}) = 1]_vars

\* C2: an invocation whose element fired the error event is rejected, and a
\* supplied onError hook has run exactly once, before the rejection.
C2_FailureEventRejects ==
    \A i \in Invocations :
        calls[i].element.fired = "error" =>
            /\ calls[i].promise.state = "rejected"
            /\ HookSupplied(calls[i]) =>
                  /\ Cardinality(Entries(calls[i], "onError")) = 1
                  /\ \A h \in Entries(calls[i], "onError") :
                        \E r \in Entries(calls[i], "reject") : h < r

\* C3: in every state in which an invocation can be made, load returns a
\* promise for every combination of arguments; an argument that makes a
\* statement of the executor raise an exception gives the caught path, and
\* the caught path hands the exception to a supplied onError hook and leaves
\* the promise rejected.
C3_LoadNeverThrows ==
    /\ Len(calls) < MaxCalls =>
       \A c \in {load(a[1], a[2], a[3]) : a \in AllArguments} :
          /\ c.path \in {"deduplicated", "inserted", "caught"}
          /\ c.promise.state \in {"pending", "resolved", "rejected"}
          /\ SchemaThrows(c.module) => c.path = "caught"
          /\ (c.options.kind = "null" /\ c.path # "deduplicated") => c.path = "caught"
          /\ c.path = "caught" =>
                /\ c.promise.state = "rejected"
                /\ ~Inserted(c)
                /\ HookSupplied(c) =>
                      \E h \in Entries(c, "onError") :
                          \E e \in Entries(c, "console.error") :
                              e < h /\ c.log[h].arg = c.log[e].arg
    /\ \A i \in Invocations :
          calls[i].path = "caught" => calls[i].promise.state = "rejected"

\* Two invocations caught an exception: one was given null options, so the
\* catch block raised as well; the other ran a hook that raised.
C3_Witness ==
    \E i, j \in Invocations :
        /\ calls[i].path = "caught" /\ calls[i].options.kind = "null"
        /\ calls[i].promise = [state |-> "rejected", value |-> "NullOnErrorTypeError"]
        /\ calls[j].path = "caught" /\ calls[j].options.onError = "throws"
        /\ calls[j].promise = [state |-> "rejected", value |-> "HookException"]

\* C4: two invocations that inserted an element for the same locator
\* requested different URLs.
C4_DistinctUrls ==
    \A i, j \in Invocations :
        (i < j /\ Inserted(calls[i]) /\ Inserted(calls[j])
            /\ calls[i].module = calls[j].module)
        => calls[i].element.src # calls[j].element.src

\* C5: a $noConflict() call returns the loader; it unbinds window.buster when
\* the binding is the loader and leaves any other binding as it is.
C5_NoConflictContract ==
    [][noConflictCall' # noConflictCall =>
        /\ noConflictCall'.returned = "buster"
        /\ noConflictCall'.found = windowBuster
        /\ windowBuster = "buster" => windowBuster' = "undefined"
        /\ windowBuster # "buster" => windowBuster' = windowBuster]_vars

\* $noConflict() was called while window.buster held a third-party value,
\* which is still bound.
C5_Witness ==
    /\ noConflictCall = [found |-> "other", returned |-> "buster"]
    /\ windowBuster = "other"

\* The state of the per-invocation state machine an invocation is in.
Stage(c) ==
    CASE c.promise.state = "resolved" -> "Loaded"
      [] c.promise.state = "rejected" -> "Failed"
      [] OTHER -> "Pending"

\* What holds of the invocations at every step whatever way they start: a
\* pending invocation has its element in the document, a settled invocation
\* keeps its outcome, and a pending one is settled only by the event of its
\* own element, load giving Loaded and error giving Failed.
Lifecycle ==
    /\ \A i \in DOMAIN calls' : Stage(calls'[i]) = "Pending" => Inserted(calls'[i])
    /\ \A i \in Invocations :
          /\ Stage(calls[i]) # "Pending" => calls'[i].promise = calls[i].promise
          /\ (Stage(calls[i]) = "Pending" /\ Stage(calls'[i]) # "Pending") =>
                /\ calls[i].element.fired = "none"
                /\ Stage(calls'[i]) = "Loaded" => calls'[i].element.fired = "load"
                /\ Stage(calls'[i]) = "Failed" => calls'[i].element.fired = "error"

StartsPending(c) == Inserted(c) /\ Stage(c) = "Pending"

StartsLoaded(c) == c.path = "deduplicated" /\ ~Inserted(c) /\ Stage(c) = "Loaded"

StartsFailed(c) == c.path = "caught" /\ ~Inserted(c) /\ Stage(c) = "Failed"

\* C6 as stated: an invocation starts Pending with its element inserted, or
\* Loaded when the registry lookup reports its name; it leaves Pending only
\* on an event of its element and its outcome never changes afterwards.
C6_StateMachineAsStated ==
    [][/\ CallStep =>
            LET c == calls'[Len(calls')] IN StartsPending(c) \/ StartsLoaded(c)
       /\ Lifecycle]_vars

\* C6 amended: as stated, with the third way to start: Failed, no element
\* inserted, when the executor caught an exception.
C6_StateMachine ==
    [][/\ CallStep =>
            LET c == calls'[Len(calls')]
            IN  StartsPending(c) \/ StartsLoaded(c) \/ StartsFailed(c)
       /\ Lifecycle]_vars

\* One invocation failed without inserting an element, another went from
\* Pending to Loaded on the load event of its element.
C6_Witness ==
    \E i, j \in Invocations :
        /\ StartsFailed(calls[i])
        /\ Inserted(calls[j]) /\ calls[j].element.fired = "load"
        /\ Stage(calls[j]) = "Loaded"

\* C7: a load or bust for a module name that has a load in flight, none of
\* whose elements has fired its load event, inserts an element of its own
\* (unless it catches an exception) and is pending.
C7_InFlightLoadsNotDeduplicated ==
    [][CallStep =>
        LET j == Len(calls')
            c == calls'[j]
        IN  (/\ c.path # "caught"
             /\ \E i \in Invocations :
                   calls[i].moduleName = c.moduleName /\ Loading(i)
             /\ \A i \in Invocations :
                   calls[i].moduleName = c.moduleName => calls[i].element.fired # "load")
            => (StartsPending(c) /\ head' = Append(head, j))]_vars

\* Two elements for one module name are in the document, neither has fired.
C7_Witness ==
    \E i, j \in Invocations :
        /\ i < j
        /\ calls[i].moduleName = calls[j].moduleName
        /\ Loading(i) /\ Loading(j)
        /\ calls[j].moduleName \notin loadedModules

\* C8: no step removes a name from the registry.
C8_RegistryOnlyGrows ==
    [][\A name \in loadedModules : name \in loadedModules']_vars

\* A name is marked, and since the first load an error event has fired and
\* $noConflict() has been called.
C8_Witness ==
    /\ loadedModules # {}
    /\ \E i \in Invocations : calls[i].element.fired = "error"
    /\ noConflictCall.returned = "buster"

\* C9: a bust call changes the registry, the document and the invocation
\* list exactly as a load call with the arguments it received.
C9_BustIsLoad ==
    [][(CallStep /\ entry' = "bust") =>
        LET j == Len(calls')
            a == calls'[j].received
            c == load(a[1], a[2], a[3])
        IN  /\ calls' = Append(calls, [c EXCEPT !.received = a])
            /\ head' = (IF Inserted(c) THEN Append(head, j) ELSE head)
            /\ loadedModules' = loadedModules]_vars

\* The latest invocation came through bust with a hook and a thisArg; its
\* element has fired the error event and the promise is rejected.
C9_Witness ==
    /\ entry = "bust"
    /\ calls # <<>>
    /\ LET c == calls[Len(calls)]
       IN  /\ c.received[3] = "ctx"
           /\ c.element.fired = "error"
           /\ Stage(c) = "Failed"

\* C10: a pending promise is settled only by the load or error event of the
\* element its own invocation inserted: not by the clock, not by another
\* invocation, not by an event of another element.
C10_OnlyOwnEventSettles ==
    [][\A i \in Invocations :
          (Stage(calls[i]) = "Pending" /\ Stage(calls'[i]) # "Pending") =>
              /\ Loading(i)
              /\ calls'[i].element.fired \in {"load", "error"}
              /\ now' = now
              /\ Len(calls') = Len(calls)
              /\ \A k \in Invocations \ {i} : calls'[k] = calls[k]]_vars

\* An invocation is still pending after the clock has advanced and a later
\* invocation for the same module name has been resolved by its own event.
C10_Witness ==
    \E i, j \in Invocations :
        /\ i < j
        /\ Loading(i) /\ Stage(calls[i]) = "Pending"
        /\ now > calls[i].cacheBuster
        /\ calls[j].moduleName = calls[i].moduleName
        /\ calls[j].element.fired = "load"

\* The errors an invocation has reported through console.error.
Reported(c) == {c.log[k].arg : k \in Entries(c, "console.error")}

\* C11: when a load fails (error event or caught exception), the promise is
\* rejected with the error that was reported, and a supplied onError hook
\* has been passed that same error.
C11_RejectsWithReportedError ==
    \A i \in Invocations : \A error \in Reported(calls[i]) :
        /\ calls[i].promise = [state |-> "rejected", value |-> error]
        /\ HookSupplied(calls[i]) =>
              \E k \in Entries(calls[i], "onError") : calls[i].log[k].arg = error

\* C12: an invocation deduplicated by the registry is not an error: when it
\* returns it has emitted one warning and resolved its promise, has reported
\* no error, run no onError hook and called no reject, has inserted no
\* element and has left the registry as it was; nothing that happens later
\* changes that invocation.
C12_DeduplicatedIsNotAnError ==
    [][/\ \A i \in Invocations :
             calls[i].path = "deduplicated" => calls'[i] = calls[i]
       /\ (CallStep /\ calls'[Len(calls')].path = "deduplicated") =>
             LET c == calls'[Len(calls')]
             IN  /\ Cardinality(Entries(c, "console.warn")) = 1
                 /\ c.promise = [state |-> "resolved", value |-> "undefined"]
                 /\ Entries(c, "console.error") = {}
                 /\ Entries(c, "onError") = {}
                 /\ Entries(c, "reject") = {}
                 /\ ~Inserted(c)
                 /\ head' = head
                 /\ loadedModules' = loadedModules]_vars

\* A name was marked loaded by a load event and a later invocation for it,
\* one that supplied an onError hook and a thisArg, was deduplicated.
C12_Witness ==
    \E i, j \in Invocations :
        /\ i < j
        /\ calls[i].element.fired = "load"
        /\ calls[i].moduleName \in loadedModules
        /\ calls[j].moduleName = calls[i].moduleName
        /\ calls[j].path = "deduplicated"
        /\ HookSupplied(calls[j])
        /\ calls[j].thisArg = "ctx"

\* The mechanisms through which the wrapper exposed the loader in its host.
Mechanisms(u) ==
    (IF u.exports = "buster" THEN {"module.exports"} ELSE {})
        \cup (IF u.defined THEN {"define"} ELSE {})
        \cup (IF u.slot = "buster" /\ u.host.slot # "buster" THEN {"global"} ELSE {})

\* The mechanism the probe order selects in a host.
Probed(host) ==
    IF host.moduleExports THEN "module.exports"
    ELSE IF host.defineAmd THEN "define"
    ELSE "global"

\* C13 as stated: in every host the wrapper exposes the loader through
\* exactly one mechanism, the one the probe order module.exports, define.amd,
\* global selects.
C13_ExactlyOneMechanismAsStated == Mechanisms(umd) = {Probed(umd.host)}

\* C13: the wrapper exposes the loader through at most one mechanism; that is
\* the one the probe order module.exports, define.amd, global selects, except
\* that the global fallback exposes nothing, and warns, when the global name
\* is already bound; what the wrapper does is a function of the host alone.
C13_ProbeOrder ==
    /\ Cardinality(Mechanisms(umd)) <= 1
    /\ Mechanisms(umd) \subseteq {Probed(umd.host)}
    /\ Mechanisms(umd) = {} <=> (Probed(umd.host) = "global" /\ SlotTruthy(umd.host.slot))
    /\ umd.warned <=> Mechanisms(umd) = {}
    /\ Probed(umd.host) # "global" => umd.slot = umd.host.slot
    /\ \A host \in Hosts : host = umd.host => umd = UMDWrapper(host)

\* The host offers both module conventions and a free global name: the
\* loader was handed to module.exports alone, and it has been used since.
C13_Witness ==
    /\ umd.host.moduleExports /\ umd.host.defineAmd /\ umd.host.slot = "undefined"
    /\ Mechanisms(umd) = {"module.exports"}
    /\ calls # <<>>

\* The invocation got as far as reading the clock (line 63).
TokenRead(c) == c.cacheBuster # -1

\* C14: an invocation that is not deduplicated reads its cacheBuster token
\* from the clock at its own call, the token is the one in the src of the
\* element it inserts, and it is no smaller than the token of any earlier
\* invocation for the same locator.
C14_TokensFollowTheClock ==
    [][CallStep =>
        LET c == calls'[Len(calls')]
        IN  TokenRead(c) =>
              /\ c.cacheBuster = now
              /\ Inserted(c) => c.element.src[Len(c.element.src)] = ToString(now)
              /\ \A i \in Invocations :
                    (TokenRead(calls[i]) /\ calls[i].module = c.module)
                        => c.cacheBuster >= calls[i].cacheBuster]_vars

\* Two invocations for one locator inserted an element each, the clock
\* advanced between them and the later one carries the larger token.
C14_Witness ==
    \E i, j \in Invocations :
        /\ i < j
        /\ calls[i].module = calls[j].module
        /\ Inserted(calls[i]) /\ Inserted(calls[j])
        /\ calls[j].cacheBuster > calls[i].cacheBuster
        /\ calls[j].cacheBuster = now

\* C15: the src of an inserted element is the locator resolved against the
\* host location, followed by "?cacheBuster=" and the token of the call.
C15_SrcIsResolvedLocatorPlusToken ==
    \A i \in Invocations :
        Inserted(calls[i]) =>
            calls[i].element.src =
                Href(calls[i].module.chars)
                    \o <<"?", "cacheBuster=", ToString(calls[i].cacheBuster)>>

\* The final '/'-delimited segment of a locator, and the positions of its dots.
LastSlash(s) == IF \E i \in DOMAIN s : s[i] = "/"
                THEN CHOOSE i \in DOMAIN s : s[i] = "/" /\ \A k \in DOMAIN s : s[k] = "/" => k <= i
                ELSE 0
FinalSegment(s) == SubSeq(s, LastSlash(s) + 1, Len(s))
Dots(s) == {i \in DOMAIN s : s[i] = "."}
FirstDot(s) == CHOOSE i \in Dots(s) : \A k \in Dots(s) : i <= k
SecondDot(s) ==
    IF Dots(s) = {FirstDot(s)} THEN Len(s) + 1
    ELSE CHOOSE i \in Dots(s) \ {FirstDot(s)} : \A k \in Dots(s) \ {FirstDot(s)} : i <= k

\* The invocation was handed a string, so that schema has parsed it.
Parsed(c) == c.module.type = "string"

\* C16: for a locator whose final segment contains a ".", schema returns as
\* moduleName what precedes the first "." of that segment and as version
\* what lies between the first "." and the second, or the end of the segment.
C16_DottedSegment ==
    \A i \in Invocations :
        LET segment == FinalSegment(calls[i].module.chars)
        IN  (Parsed(calls[i]) /\ Dots(segment) # {}) =>
                /\ calls[i].moduleName = SubSeq(segment, 1, FirstDot(segment) - 1)
                /\ calls[i].version =
                      SubSeq(segment, FirstDot(segment) + 1, SecondDot(segment) - 1)
                /\ schema(calls[i].module.chars) =
                      [moduleName |-> calls[i].moduleName, version |-> calls[i].version]

\* A locator with a path and two dots in its final segment has been parsed:
\* name and version are both non-empty and the version stops at the second dot.
C16_Witness ==
    \E i \in Invocations :
        LET segment == FinalSegment(calls[i].module.chars)
        IN  /\ Parsed(calls[i])
            /\ Cardinality(Dots(segment)) >= 2
            /\ calls[i].moduleName # <<>>
            /\ calls[i].version # <<>>
            /\ SecondDot(segment) <= Len(segment)

\* C17: for a locator whose final segment contains no ".", schema returns an
\* empty version and the whole final segment as moduleName; schema raises no
\* exception for any string, and the empty string gives the empty moduleName.
C17_UndottedSegment ==
    \A i \in Invocations :
        LET segment == FinalSegment(calls[i].module.chars)
        IN  Parsed(calls[i]) =>
                /\ "SplitTypeError" \notin Reported(calls[i])
                /\ Dots(segment) = {} =>
                      /\ calls[i].moduleName = segment
                      /\ calls[i].version = <<>>
                /\ calls[i].module.chars = <<>> => calls[i].moduleName = <<>>

\* A locator with a directory part and no dot in its final segment has been
\* parsed: the moduleName is that whole segment and the version is empty.
C17_Witness ==
    \E i \in Invocations :
        LET segment == FinalSegment(calls[i].module.chars)
        IN  /\ Parsed(calls[i])
            /\ LastSlash(calls[i].module.chars) > 1
            /\ Dots(segment) = {}
            /\ segment # <<>>
            /\ calls[i].moduleName = segment
            /\ calls[i].version = <<>>

\* A locator with at least one path segment: one of its '/'-delimited
\* segments is not empty.
WellFormed(s) ==
    \E i \in DOMAIN s : s[i] # "/"

\* C18: for a well-formed locator the moduleName is not empty, and the
\* registry is not keyed by the empty name.
C18_NameNonEmpty ==
    \A i \in Invocations :
        (Parsed(calls[i]) /\ WellFormed(calls[i].module.chars)) =>
            /\ calls[i].moduleName # <<>>
            /\ <<>> \notin loadedModules

\* The calls of resolve, reject and the onError hook an invocation has made.
CallbackCalls(c) == {k \in DOMAIN c.log : c.log[k].fn \in {"resolve", "reject", "onError"}}

\* C19: when a thisArg is passed, whatever its value, every call of resolve,
\* reject and the onError hook made for that invocation has that value as
\* its call context.
C19_CallbacksBoundToThisArg ==
    \A i \in Invocations :
        calls[i].received[3] # "undefined" =>
            \A k \in CallbackCalls(calls[i]) :
                calls[i].log[k].this = calls[i].received[3]

\* The script elements that are children of document.head.
InDocument == {head[k] : k \in DOMAIN head}

\* C20: once the promise of an invocation has settled, the element it
\* inserted is no longer in the document, so the elements in the document
\* are never more than the pending invocations.
C20_ElementsCleanedUp ==
    /\ \A i \in Invocations : Stage(calls[i]) # "Pending" => i \notin InDocument
    /\ Cardinality(InDocument)
          <= Cardinality({i \in Invocations : Stage(calls[i]) = "Pending"})

\* C21: an invocation is deduplicated (taken as already loaded, resolved with
\* no element inserted) only if the load event of an earlier invocation for
\* the same module name has fired.
C21_DeduplicatedOnlyAfterSuccess ==
    \A j \in Invocations :
        calls[j].path = "deduplicated" =>
            \E i \in 1..(j - 1) :
                /\ calls[i].moduleName = calls[j].moduleName
                /\ calls[i].element.fired = "load"

\* The invocations for module name n whose element has fired the given event.
Fired(n, event) ==
    {i \in Invocations : calls[i].moduleName = n /\ calls[i].element.fired = event}

\* No invocation has more than one element in the document after the step,
\* and an error event leaves the registry as it was.
NoRetryByLoader ==
    /\ \A k, m \in DOMAIN head' : head'[k] = head'[m] => k = m
    /\ \A i \in Invocations :
          (Loading(i) /\ calls'[i].element.fired = "error")
              => loadedModules' = loadedModules

\* C22 as stated: the loader inserts at most one element per invocation, an
\* error event leaves the registry unchanged, and a call for a name one of
\* whose elements has failed is not deduplicated and inserts a new element.
C22_NoRetryAsStated ==
    [][/\ NoRetryByLoader
       /\ CallStep =>
             LET c == calls'[Len(calls')]
             IN  (Parsed(c) /\ Fired(c.moduleName, "error") # {}) =>
                     /\ c.path # "deduplicated"
                     /\ Inserted(c)
                     /\ head' = Append(head, Len(calls'))]_vars

\* C22: the loader inserts at most one element per invocation, an error
\* event leaves the registry unchanged, and a call for a name one of whose
\* elements has failed and none has loaded is not deduplicated; it inserts
\* a new element unless the call itself ends in the catch block.
C22_NoRetry ==
    [][/\ NoRetryByLoader
       /\ CallStep =>
             LET c == calls'[Len(calls')]
             IN  (/\ Parsed(c)
                  /\ Fired(c.moduleName, "error") # {}
                  /\ Fired(c.moduleName, "load") = {}) =>
                     /\ c.path # "deduplicated"
                     /\ c.path # "caught" =>
                           (Inserted(c) /\ head' = Append(head, Len(calls')))]_vars

\* The element of one invocation has failed and the promise is rejected; a
\* later invocation for the same name has its own element in the document,
\* still loading, and the registry is empty.
C22_Witness ==
    \E i, j \in Invocations :
        /\ i < j
        /\ calls[i].element.fired = "error"
        /\ Stage(calls[i]) = "Failed"
        /\ calls[j].moduleName = calls[i].moduleName
        /\ Loading(j)
        /\ head = <<i, j>>
        /\ loadedModules = {}

\* The module name of a locator: its final segment up to the first ".".
NameOf(s) ==
    LET segment == FinalSegment(s)
    IN  IF Dots(segment) = {} THEN segment
        ELSE SubSeq(segment, 1, FirstDot(segment) - 1)

\* C23: once the load event of an invocation has fired, every later call whose
\* locator has the same module name is deduplicated: it inserts no element
\* and its promise is resolved when it returns, whatever the directory, the
\* version and the extension of the two locators.
C23_KeyedOnNameAlone ==
    [][CallStep =>
        LET c == calls'[Len(calls')]
        IN  (/\ Parsed(c)
             /\ \E i \in Invocations :
                   /\ calls[i].element.fired = "load"
                   /\ NameOf(calls[i].module.chars) = NameOf(c.module.chars)) =>
                /\ c.path = "deduplicated"
                /\ ~Inserted(c)
                /\ head' = head
                /\ c.promise.state = "resolved"]_vars

\* /m/a.js has loaded and a later call for a.v2.js, another directory,
\* version and extension, was deduplicated.
C23_Witness ==
    \E i, j \in Invocations :
        /\ i < j
        /\ calls[i].module = LocA /\ calls[i].element.fired = "load"
        /\ calls[j].module = LocA2
        /\ calls[j].version # calls[i].version
        /\ calls[j].path = "deduplicated"
        /\ Stage(calls[j]) = "Loaded"
        /\ head = <<i>>

\* Position in the log of an invocation of the only entry for fn (0: none).
At(c, fn) == IF Cardinality(Entries(c, fn)) = 1 THEN CHOOSE k \in Entries(c, fn) : TRUE ELSE 0

\* C24: an inserted element had both handlers attached before its source was
\* set and before it was appended to the document; and when the load event
\* has fired, the name was marked in the registry before resolve was called,
\* so that the registry reports the name as loaded once the promise is
\* resolved.
C24_OrderInsideLoad ==
    \A i \in Invocations :
        LET c == calls[i]
        IN  /\ Inserted(c) =>
                  /\ 0 < At(c, "element.onload=")
                  /\ 0 < At(c, "element.onerror=")
                  /\ At(c, "element.onload=") < At(c, "element.src=")
                  /\ At(c, "element.onerror=") < At(c, "element.src=")
                  /\ At(c, "element.src=") < At(c, "appendChild")
            /\ c.element.fired = "load" =>
                  /\ 0 < At(c, "loadedModules[moduleName]=")
                  /\ At(c, "loadedModules[moduleName]=") < At(c, "resolve")
                  /\ c.promise.state = "resolved"
                  /\ IsLoaded(loadedModules, c.moduleName)

\* An element was inserted with its handlers attached, its load event has
\* fired, the name is in the registry and the promise is resolved.
C24_Witness ==
    \E i \in Invocations :
        /\ Inserted(calls[i])
        /\ calls[i].element.fired = "load"
        /\ At(calls[i], "appendChild") > 0
        /\ At(calls[i], "resolve") > At(calls[i], "loadedModules[moduleName]=")
        /\ calls[i].moduleName \in loadedModules
        /\ Stage(calls[i]) = "Loaded"

\* C25: a call that ends in the catch block has inserted no element, and it
\* leaves the document and the registry as they were before the call.
C25_CaughtExceptionChangesNothing ==
    [][(CallStep /\ calls'[Len(calls')].path = "caught") =>
          /\ ~Inserted(calls'[Len(calls')])
          /\ head' = head
          /\ loadedModules' = loadedModules
          /\ \A i \in Invocations : calls'[i] = calls[i]]_vars

\* A name is in the registry and its element in the document; a later call
\* for another name was handed null options, created its element and ended
\* in the catch block without inserting it.
C25_Witness ==
    \E i, j \in Invocations :
        /\ i < j
        /\ calls[i].element.fired = "load"
        /\ calls[j].path = "caught"
        /\ calls[j].element.state = "created"
        /\ Stage(calls[j]) = "Failed"
        /\ head = <<i>>
        /\ loadedModules = {calls[i].moduleName}

\* C26: every promise settles once the host has delivered the event of its
\* element: a promise is pending only while its invocation has an element
\* in the document whose load or error event is still to come.  (An element
\* fires one event only, so a promise that is pending after the event stays
\* pending in every continuation, fair or not.)
C26_PendingOnlyWhileEventOutstanding ==
    \A i \in Invocations :
        Stage(calls[i]) = "Pending" => Loading(i)

\* The module names the invocations and the registry know of.
KnownNames == loadedModules \cup {calls[i].moduleName : i \in Invocations}

\* C27: whatever the order in which the events of several elements of one
\* name arrive, the promise of an invocation that inserted an element is
\* resolved exactly when its own element has fired load and is rejected only
\* when its own element has fired error, and a name is marked in the
\* registry exactly when the element of at least one invocation for it has
\* fired load, error events before or after it notwithstanding.
C27_EventOrderIrrelevant ==
    /\ \A i \in Invocations :
          Inserted(calls[i]) =>
              /\ Stage(calls[i]) = "Loaded" <=> calls[i].element.fired = "load"
              /\ Stage(calls[i]) = "Failed" => calls[i].element.fired = "error"
    /\ \A n \in KnownNames :
          n \in loadedModules <=> Fired(n, "load") # {}

\* Two invocations for one name had their elements in the document at once;
\* one fired load and the other error, the first promise is resolved, the
\* second rejected and the name is marked.
C27_Witness ==
    \E i, j \in Invocations :
        /\ i < j
        /\ calls[i].moduleName = calls[j].moduleName
        /\ Inserted(calls[i]) /\ Inserted(calls[j])
        /\ calls[i].element.fired = "load" /\ Stage(calls[i]) = "Loaded"
        /\ calls[j].element.fired = "error" /\ Stage(calls[j]) = "Failed"
        /\ calls[i].moduleName \in loadedModules

\* C28: a step made for module name A (a call, a load event or an error
\* event of an invocation for A) leaves the registry entry of every other
\* name and every invocation of every other name as they were; a step that
\* touches no invocation leaves the registry alone.
C28_OtherNamesUntouched ==
    [][/\ \A k \in DOMAIN calls' :
             (k \notin Invocations \/ calls'[k] # calls[k]) =>
                 /\ \A n \in loadedModules \cup loadedModules' :
                       n # calls'[k].moduleName =>
                           (n \in loadedModules <=> n \in loadedModules')
                 /\ \A i \in Invocations :
                       calls[i].moduleName # calls'[k].moduleName =>
                           calls'[i] = calls[i]
       /\ calls' = calls => loadedModules' = loadedModules]_vars

\* The element of an invocation for one name has fired load and the name is
\* marked, while an invocation for another name, made earlier, is still
\* pending with its element in the document and its name unmarked.
C28_Witness ==
    \E i, j \in Invocations :
        /\ j < i
        /\ calls[i].moduleName # calls[j].moduleName
        /\ calls[i].element.fired = "load"
        /\ Loading(j) /\ Stage(calls[j]) = "Pending"
        /\ loadedModules = {calls[i].moduleName}

\* C29: in a host with neither module convention, the wrapper leaves a
\* global name that is already bound as it found it, warns when the value
\* bound is truthy, and attaches the loader only when the name is unbound.
C29_NeverOverwrites ==
    Probed(umd.host) = "global" =>
        /\ umd.host.slot # "undefined" => umd.slot = umd.host.slot
        /\ SlotTruthy(umd.host.slot) => umd.warned
        /\ umd.slot = "buster" => umd.host.slot = "undefined"

====
